---- MODULE Spec2Model ----
(***************************************************************************)
(* Model of docs/conf.py of cumulus13/pt-go: the version reader            *)
(* get_version() (lines 11-35) and the module-level statements that use it *)
(* (lines 38-110).                                                         *)
(*                                                                         *)
(* A string is a sequence of one-character strings.  The environment of a  *)
(* run is the state of the three candidate VERSION paths and the outcome   *)
(* of `git describe --tags`; the program only reads it.                    *)
(***************************************************************************)
EXTENDS Integers, Sequences, FiniteSets

\* Longest VERSION file content / git output the model enumerates.
MaxLen == 2

\* Characters file contents and git output are drawn from: one that
\* str.strip() keeps and one that it removes.
Chars == {"1", "\n"}

\* The characters str.strip() removes when called without argument.
Whitespace == {" ", "\t", "\n", "\r", "\f"}

Strings == UNION {[1..n -> Chars] : n \in 0..MaxLen}

\* conf.py:14-18, the candidate paths in list order.
version_files == <<"docs/VERSION", "docs/../VERSION", "../VERSION">>

Candidates == 1..Len(version_files)

\* conf.py:35, the hardcoded fallback.
FALLBACK == <<"1", ".", "0", ".", "3", "6">>

(***************************************************************************)
(* Environment.                                                            *)
(***************************************************************************)
\* What can be at a candidate path: nothing, a directory, or a regular file
\* with some content that the process may or may not be allowed to read.
AbsentPath == [kind |-> "absent", readable |-> FALSE, content |-> <<>>]

DirectoryPath == [kind |-> "dir", readable |-> FALSE, content |-> <<>>]

PathStates ==
    {AbsentPath, DirectoryPath}
        \cup [kind : {"file"}, readable : BOOLEAN, content : Strings]

\* Exit statuses of git describe: 0 on success, 128 on "fatal: ..." .
ReturnCodes == {0, 128}

\* What subprocess.run(['git', 'describe', '--tags'], ...) does: raises
\* FileNotFoundError (no git executable), raises something else, or
\* completes with an exit status and the captured standard output.
GitOutcomes ==
    [kind : {"FileNotFoundError", "OSError"}, returncode : {0}, stdout : {<<>>}]
        \cup [kind : {"completed"}, returncode : ReturnCodes, stdout : Strings]

(***************************************************************************)
(* Pure functions.                                                         *)
(***************************************************************************)
RECURSIVE LStrip(_)
LStrip(s) ==
    IF s # <<>> /\ Head(s) \in Whitespace THEN LStrip(Tail(s)) ELSE s

RECURSIVE RStrip(_)
RStrip(s) ==
    IF s # <<>> /\ s[Len(s)] \in Whitespace
    THEN RStrip(SubSeq(s, 1, Len(s) - 1))
    ELSE s

\* str.rstrip() in place of str.strip().
Strip_RightOnly(s) == RStrip(s)

\* str.strip(): drop leading and trailing whitespace, keep the inside.
Strip(s) == RStrip(LStrip(s))

\* os.path.exists(vf): true for files and directories alike.
Exists(p) == p.kind # "absent"

\* The exception open(vf, 'r') / f.read() raises, "" when it succeeds.
OpenError(p) ==
    IF p.kind = "dir" THEN "IsADirectoryError"
    ELSE IF ~p.readable THEN "PermissionError"
    ELSE ""

Returned(v, via) == [kind |-> "return", value |-> v, via |-> via]

Raised(exc) == [kind |-> "raise", value |-> <<>>, via |-> exc]

NoResult == [kind |-> "none", value |-> <<>>, via |-> ""]

Unbound == [bound |-> FALSE, value |-> <<>>]

Bound(v) == [bound |-> TRUE, value |-> v]

(***************************************************************************)
(* State.                                                                  *)
(***************************************************************************)
VARIABLES
    files,      \* environment: candidate index -> what is at that path
    git,        \* environment: outcome of git describe --tags
    mpc,        \* position of the caller (module level of conf.py)
    fpc,        \* position inside get_version
    i,          \* index of vf in the for loop of get_version
    ret,        \* how the current / last call of get_version ended
    probes,     \* candidates tested with os.path.exists, in order
    reads,      \* candidates opened during the current call
    spawns,     \* subprocess.run invocations during the current call
    calls,      \* calls of get_version so far
    results,    \* outcomes of the completed calls, in order
    version,    \* module variable `version`
    release,    \* module variable `release`
    config      \* names of the other module variables bound so far

vars ==
    <<files, git, mpc, fpc, i, ret, probes, reads, spawns, calls, results,
      version, release, config>>

env == <<files, git>>

modvars == <<version, release, config>>

callvars == <<fpc, i, ret, probes, reads, spawns>>

InGetVersion == fpc \in {"loop", "open", "git", "fallback"}

(***************************************************************************)
(* get_version, conf.py:11-35.                                             *)
(***************************************************************************)
\* Entry: a fresh frame, the for loop at its first element.
EnterGetVersion ==
    /\ fpc = "idle"
    /\ fpc' = "loop"
    /\ i' = 1
    /\ ret' = NoResult
    /\ probes' = <<>>
    /\ reads' = {}
    /\ spawns' = 0
    /\ calls' = calls + 1

\* The test of line 21 with the git step indented into the loop: the first
\* absent candidate ends the search.
ProbeVersionFile_AbsentEndsLoop ==
    /\ fpc = "loop"
    /\ probes' = Append(probes, i)
    /\ IF Exists(files[i])
       THEN fpc' = "open" /\ i' = i
       ELSE fpc' = "git" /\ i' = i
    /\ UNCHANGED <<env, mpc, ret, reads, spawns, calls, results, modvars>>

\* Lines 20-21: test the next candidate; go on to the next one, or to the
\* git step after the last, when it does not exist.
ProbeVersionFile ==
    /\ fpc = "loop"
    /\ probes' = Append(probes, i)
    /\ IF Exists(files[i])
       THEN fpc' = "open" /\ i' = i
       ELSE IF i < Len(version_files)
            THEN fpc' = "loop" /\ i' = i + 1
            ELSE fpc' = "git" /\ i' = i
    /\ UNCHANGED <<env, mpc, ret, reads, spawns, calls, results, modvars>>

\* Line 22 with mode 'w+': the file is empty once the call is over.
ReadVersionFile_Truncating ==
    /\ fpc = "open"
    /\ reads' = reads \cup {i}
    /\ IF OpenError(files[i]) = ""
       THEN /\ ret' = Returned(Strip(files[i].content), "file")
            /\ fpc' = "returned"
            /\ files' = [files EXCEPT ![i].content = <<>>]
       ELSE /\ ret' = Raised(OpenError(files[i]))
            /\ fpc' = "raised"
            /\ files' = files
    /\ UNCHANGED <<git, mpc, i, probes, spawns, calls, results, modvars>>

\* Lines 22-23: open the existing candidate and return its stripped text.
\* Nothing catches what open or read raise.
ReadVersionFile ==
    /\ fpc = "open"
    /\ reads' = reads \cup {i}
    /\ IF OpenError(files[i]) = ""
       THEN /\ ret' = Returned(Strip(files[i].content), "file")
            /\ fpc' = "returned"
       ELSE /\ ret' = Raised(OpenError(files[i]))
            /\ fpc' = "raised"
    /\ UNCHANGED <<env, mpc, i, probes, spawns, calls, results, modvars>>

\* Line 30 left out: the output is returned whatever the exit status.
GitDescribe_IgnoresStatus ==
    /\ fpc = "git"
    /\ spawns' = spawns + 1
    /\ IF git.kind = "completed"
       THEN /\ ret' = Returned(Strip(git.stdout), "git")
            /\ fpc' = "returned"
       ELSE /\ ret' = ret
            /\ fpc' = "fallback"
    /\ UNCHANGED <<env, mpc, i, probes, reads, calls, results, modvars>>

\* Line 30 also asking for some output: `and result.stdout.strip()`.
GitDescribe_NeedsOutput ==
    /\ fpc = "git"
    /\ spawns' = spawns + 1
    /\ IF git.kind = "completed" /\ git.returncode = 0
            /\ Strip(git.stdout) # <<>>
       THEN /\ ret' = Returned(Strip(git.stdout), "git")
            /\ fpc' = "returned"
       ELSE /\ ret' = ret
            /\ fpc' = "fallback"
    /\ UNCHANGED <<env, mpc, i, probes, reads, calls, results, modvars>>

\* A second git run after a failed one (say with --always) before giving up.
GitDescribe_Retries ==
    /\ fpc = "git"
    /\ IF git.kind = "completed" /\ git.returncode = 0
       THEN /\ ret' = Returned(Strip(git.stdout), "git")
            /\ fpc' = "returned"
            /\ spawns' = spawns + 1
       ELSE /\ ret' = ret
            /\ fpc' = "fallback"
            /\ spawns' = spawns + 2
    /\ UNCHANGED <<env, mpc, i, probes, reads, calls, results, modvars>>

\* Lines 26-33: run git describe inside try / bare except.
GitDescribe ==
    /\ fpc = "git"
    /\ spawns' = spawns + 1
    /\ IF git.kind = "completed" /\ git.returncode = 0
       THEN /\ ret' = Returned(Strip(git.stdout), "git")
            /\ fpc' = "returned"
       ELSE /\ ret' = ret
            /\ fpc' = "fallback"
    /\ UNCHANGED <<env, mpc, i, probes, reads, calls, results, modvars>>

\* Line 35.
ReturnFallback ==
    /\ fpc = "fallback"
    /\ ret' = Returned(FALLBACK, "literal")
    /\ fpc' = "returned"
    /\ UNCHANGED <<env, mpc, i, probes, reads, spawns, calls, results, modvars>>

GetVersionStep ==
    \/ ProbeVersionFile
    \/ ReadVersionFile
    \/ GitDescribe
    \/ ReturnFallback

(***************************************************************************)
(* One load of conf.py, lines 38-110.                                      *)
(***************************************************************************)
\* Lines 38-40.
ProjectInformation ==
    /\ mpc = "L38"
    /\ config' = config \cup {"project", "copyright", "author"}
    /\ mpc' = "L41"
    /\ UNCHANGED <<env, callvars, calls, results, version, release>>

\* Line 41, the call.
CallGetVersion ==
    /\ mpc = "L41"
    /\ EnterGetVersion
    /\ mpc' = "L41_called"
    /\ UNCHANGED <<env, results, modvars>>

\* Line 41, the assignment of the returned value.
BindVersion ==
    /\ mpc = "L41_called"
    /\ fpc = "returned"
    /\ version' = Bound(ret.value)
    /\ fpc' = "idle"
    /\ mpc' = "L42"
    /\ UNCHANGED <<env, i, ret, probes, reads, spawns, calls, results,
                   release, config>>

\* Line 41 when get_version raised: the exception leaves the module and
\* the load ends there.
LoadFails ==
    /\ mpc = "L41_called"
    /\ fpc = "raised"
    /\ fpc' = "idle"
    /\ mpc' = "failed"
    /\ UNCHANGED <<env, i, ret, probes, reads, spawns, calls, results, modvars>>

\* Line 42 with the release written out instead of copied.
AssignRelease_Hardcoded ==
    /\ mpc = "L42"
    /\ release' = Bound(FALLBACK)
    /\ mpc' = "L45"
    /\ UNCHANGED <<env, callvars, calls, results, version, config>>

\* Line 42.
AssignRelease ==
    /\ mpc = "L42"
    /\ release' = version
    /\ mpc' = "L45"
    /\ UNCHANGED <<env, callvars, calls, results, version, config>>

\* Lines 45-110: the remaining assignments, none to version or release.
GeneralConfiguration ==
    /\ mpc = "L45"
    /\ config' = config \cup
            {"extensions", "templates_path", "exclude_patterns",
             "source_suffix", "master_doc", "language", "pygments_style",
             "pygments_dark_style", "html_theme", "html_theme_options",
             "html_static_path", "html_css_files", "html_favicon",
             "html_logo", "html_title", "html_short_title",
             "copybutton_prompt_text", "copybutton_prompt_is_regexp",
             "copybutton_line_continuation_character",
             "copybutton_here_doc_delimiter", "extlinks",
             "intersphinx_mapping", "suppress_warnings"}
    /\ mpc' = "done"
    /\ UNCHANGED <<env, callvars, calls, results, version, release>>

(***************************************************************************)
(* Two successive calls of get_version in one environment.                 *)
(***************************************************************************)
FirstCall ==
    /\ mpc = "first"
    /\ EnterGetVersion
    /\ mpc' = "first_called"
    /\ UNCHANGED <<env, results, modvars>>

SecondCall ==
    /\ mpc = "second"
    /\ EnterGetVersion
    /\ mpc' = "second_called"
    /\ UNCHANGED <<env, results, modvars>>

\* The caller takes the outcome of the call that just ended.
TakeResult ==
    /\ mpc \in {"first_called", "second_called"}
    /\ fpc \in {"returned", "raised"}
    /\ results' = Append(results, [kind |-> ret.kind, value |-> ret.value])
    /\ fpc' = "idle"
    /\ mpc' = IF mpc = "first_called" THEN "second" ELSE "compared"
    /\ UNCHANGED <<env, i, ret, probes, reads, spawns, calls, modvars>>

(***************************************************************************)
(* Specifications.                                                         *)
(***************************************************************************)
InitEnv ==
    /\ files \in [Candidates -> PathStates]
    /\ git \in GitOutcomes

InitProgram ==
    /\ fpc = "idle"
    /\ i = 1
    /\ ret = NoResult
    /\ probes = <<>>
    /\ reads = {}
    /\ spawns = 0
    /\ calls = 0
    /\ results = <<>>
    /\ version = Unbound
    /\ release = Unbound
    /\ config = {}

\* A documentation build: conf.py is loaded once.
Init == InitEnv /\ InitProgram /\ mpc = "L38"

Next ==
    \/ ProjectInformation
    \/ CallGetVersion
    \/ GetVersionStep
    \/ BindVersion
    \/ LoadFails
    \/ AssignRelease
    \/ GeneralConfiguration

Spec == Init /\ [][Next]_vars

\* get_version called twice in a row.
InitTwice == InitEnv /\ InitProgram /\ mpc = "first"

NextTwice ==
    \/ FirstCall
    \/ SecondCall
    \/ GetVersionStep
    \/ TakeResult

SpecTwice == InitTwice /\ [][NextTwice]_vars

(***************************************************************************)
(* Vocabulary of the properties.                                           *)
(***************************************************************************)
\* The text between the first and the last non-whitespace character of s.
Trimmed(s) ==
    LET keep == {k \in 1..Len(s) : s[k] \notin Whitespace}
    IN  IF keep = {}
        THEN <<>>
        ELSE SubSeq(s, CHOOSE k \in keep : \A m \in keep : k <= m,
                       CHOOSE k \in keep : \A m \in keep : k >= m)

Existing == {c \in Candidates : Exists(files[c])}

NoFileExists == Existing = {}

\* The lowest-index candidate that exists (only used when there is one).
Lowest == CHOOSE c \in Existing : \A d \in Existing : c <= d

GitSucceeds == git.kind = "completed" /\ git.returncode = 0

\* The current call of get_version is over.
Ended == ret.kind # "none"

ReturnedValue(v) == ret.kind = "return" /\ ret.value = v

(***************************************************************************)
(* Properties.                                                             *)
(***************************************************************************)
\* C1: whenever a VERSION file exists at the first candidate path,
\* get_version returns exactly the trimmed contents of that file, reads no
\* later candidate and does not invoke git describe.
C1_FirstFileReturned ==
    files[1].kind = "file" =>
        /\ reads \subseteq {1}
        /\ spawns = 0
        /\ fpc # "raised"
        /\ Ended => ReturnedValue(Trimmed(files[1].content))

\* C2: when no candidate exists and git describe exits with status 0,
\* get_version returns the trimmed standard output of git, not the literal.
C2_GitOutputReturned ==
    (NoFileExists /\ GitSucceeds /\ Ended) =>
        /\ ReturnedValue(Trimmed(git.stdout))
        /\ ret.via = "git"

C2_Witness ==
    /\ NoFileExists
    /\ GitSucceeds
    /\ git.stdout = <<"1", "\n">>
    /\ fpc = "returned"
    /\ ret.value = <<"1">>

\* C3: when no candidate exists and the git step fails (no executable, an
\* exception, a non-zero exit status with any output), get_version returns
\* the literal '1.0.36' and nothing is raised.
C3_FallbackOnGitFailure ==
    (NoFileExists /\ ~GitSucceeds) =>
        /\ fpc # "raised"
        /\ Ended => (ReturnedValue(FALLBACK) /\ ret.via = "literal")

C3_Witness ==
    /\ NoFileExists
    /\ git.kind = "completed"
    /\ git.returncode # 0
    /\ git.stdout = <<"1">>
    /\ fpc = "returned"
    /\ ret.value = FALLBACK

\* C4: get_version never raises; when the candidate it opens cannot be
\* opened or read the call still returns a string, the fallback.
C4_NeverRaises ==
    /\ fpc # "raised"
    /\ Ended => ret.kind = "return"
    /\ (Ended /\ ~NoFileExists /\ OpenError(files[Lowest]) # "") =>
            ReturnedValue(FALLBACK)

\* C5: two successive calls in one environment end the same way, and no
\* step changes the environment the next call observes.
C5_Idempotent ==
    [][/\ files' = files
       /\ git' = git
       /\ Len(results') = 2 => results'[1] = results'[2]]_vars

C5_Witness ==
    /\ mpc = "compared"
    /\ Len(results) = 2
    /\ files[1].kind = "file"
    /\ files[1].content = <<"1", "\n">>
    /\ results[2] = [kind |-> "return", value |-> <<"1">>]

\* C6: candidates are probed in list order and only past absent ones, a
\* result read from a file is the trimmed content of the lowest-index
\* existing candidate, git runs only after every candidate was found
\* absent, the literal is returned only after the git step failed too, and
\* an existing candidate keeps git from running even if it would succeed.
C6_OrderedFallback ==
    /\ \A k \in 1..Len(probes) : probes[k] = k
    /\ \A k \in 1..(Len(probes) - 1) : ~Exists(files[k])
    /\ reads # {} => (~NoFileExists /\ reads = {Lowest})
    /\ ret.via = "file" =>
            (~NoFileExists /\ ret.value = Trimmed(files[Lowest].content))
    /\ (fpc \in {"git", "fallback"} \/ spawns > 0 \/ ret.via \in {"git", "literal"}) =>
            (NoFileExists /\ Len(probes) = Len(version_files))
    /\ (fpc = "fallback" \/ ret.via = "literal") =>
            (spawns = 1 /\ ~GitSucceeds)
    /\ ret.via = "git" => (spawns = 1 /\ GitSucceeds)

C6_Witness ==
    /\ ~Exists(files[1])
    /\ files[2] = [kind |-> "file", readable |-> TRUE, content |-> <<"1", "\n">>]
    /\ GitSucceeds
    /\ git.stdout = <<"1", "1">>
    /\ fpc = "returned"
    /\ probes = <<1, 2>>
    /\ spawns = 0
    /\ ret = Returned(<<"1">>, "file")

\* C7: a call changes no candidate path and no module variable, and runs
\* git zero times when some candidate exists and exactly once otherwise.
C7_NoSideEffects ==
    [][/\ files' = files
       /\ git' = git
       /\ InGetVersion => (version' = version /\ release' = release /\ config' = config)
       /\ spawns' <= 1
       /\ ~NoFileExists => spawns' = 0
       /\ (Ended' /\ NoFileExists) => spawns' = 1]_vars

C7_Witness ==
    /\ mpc = "L41_called"
    /\ fpc = "returned"
    /\ NoFileExists
    /\ spawns = 1
    /\ config = {"project", "copyright", "author"}

\* C8: in one load of conf.py get_version is called exactly once, and from
\* line 42 on version and release both hold the value it returned.
C8_VersionBoundOnce ==
    /\ calls <= 1
    /\ mpc \in {"L41_called", "L42", "L45", "done", "failed"} => calls = 1
    /\ mpc \in {"L38", "L41", "L41_called", "failed"} => (version = Unbound /\ release = Unbound)
    /\ mpc = "L42" => (version = Bound(ret.value) /\ release = Unbound)
    /\ mpc \in {"L45", "done"} =>
            /\ ret.kind = "return"
            /\ version = Bound(ret.value)
            /\ release = version

C8_Witness ==
    /\ mpc = "done"
    /\ calls = 1
    /\ version = Bound(<<"1">>)
    /\ release = Bound(<<"1">>)

\* C9: when the lowest-index existing candidate is a file that is empty or
\* holds only whitespace, get_version returns the empty string and neither
\* reads a later candidate nor runs git nor returns the literal.
C9_EmptyFileReturned ==
    (~NoFileExists /\ files[Lowest].kind = "file"
        /\ Trimmed(files[Lowest].content) = <<>>) =>
        /\ reads \subseteq {Lowest}
        /\ spawns = 0
        /\ fpc # "raised"
        /\ Ended => ReturnedValue(<<>>)

\* C10: when no candidate exists and git describe exits with status 0 but
\* prints nothing or only whitespace, get_version returns the empty
\* string, not the literal '1.0.36'.
C10_EmptyGitOutputReturned ==
    (NoFileExists /\ GitSucceeds /\ Trimmed(git.stdout) = <<>> /\ Ended) =>
        /\ ReturnedValue(<<>>)
        /\ ret.value # FALLBACK
        /\ ret.via # "literal"

C10_Witness ==
    /\ NoFileExists
    /\ GitSucceeds
    /\ git.stdout = <<"\n">>
    /\ fpc = "returned"
    /\ ret = Returned(<<>>, "git")

====
